---- MODULE Spec2Model ----
(***************************************************************************)
(* Model of antara-align-cfg/antara_cfg_builder.py (class CFGBuilder):     *)
(* the call-trace -> weighted call graph -> adjacency matrix pipeline and  *)
(* the driver loop of get_dynamic_call_graph.                              *)
(*                                                                         *)
(* Node identifiers are the integers 1..NumNodes (opaque, totally ordered  *)
(* tokens; pandas sorts group keys).  NaN (0) stands for a missing field   *)
(* of a trace row, which is what pd.read_csv yields for an absent value.   *)
(* Sequences are 1-based: position i of a NodeList here is index i-1 in    *)
(* Python.  The library calls are modelled by what they do for the pandas  *)
(* the code is written for (DataFrame.append exists, groupby drops rows    *)
(* with a missing key) and for networkx (add_edge replaces an edge's       *)
(* attributes, adjacency_matrix refuses a graph without nodes).            *)
(***************************************************************************)
EXTENDS Integers, Sequences, FiniteSets, TLC

\* ------------------------------------------------------------ bounds
NumNodes == 2
MaxLen == 3
MaxRows == 2
MaxFiles == 2
MaxEdges == 2
MaxWeight == 2

NaN == 0
Nodes == 1..NumNodes
Fields == Nodes \cup {NaN}

\* A row of a trace DataFrame with the columns 'source' and 'target'.
Row == [source : Fields, target : Fields]
CallRecord == [source : Nodes, target : Nodes]

SeqsUpTo(S, n) == UNION {[1..k -> S] : k \in 0..n}

\* Trace DataFrames handed to _calltrace_to_callgraph, and contents of callgraph.csv.
Traces == SeqsUpTo(Row, MaxLen)
CsvContents == SeqsUpTo(Row, MaxRows)

\* A row of an aggregated edge list: columns source, target, label.
WeightedEdge == [source : Nodes, target : Nodes, label : 1..MaxWeight]
EdgeLists == SeqsUpTo(WeightedEdge, MaxEdges)

VARIABLES
    pc,             \* "start" | "loop" | "graph" | "matrix" | "raised"
    entry,          \* which operation was called first
    files,          \* number of paths test_input_path.glob("*") enumerates
    seed_id,        \* the seed_id argument
    input_num,      \* loop index of enumerate(...)
    executed,       \* positions of the files the binary was run on, in order
    events,         \* "run" / "read" / "aggregate", in the order they happened
    csv_rows,       \* rows of the callgraph.csv files read, in order
    call_trace_df,  \* the DataFrame accumulated by the loop
    trace_df,       \* argument of _calltrace_to_callgraph
    grouped,        \* edge list handed to nx.from_pandas_edgelist
    G,              \* the nx.DiGraph
    use_weights,    \* argument of graph_to_adjacency_matrix
    result,         \* what graph_to_adjacency_matrix returned
    exc             \* "none" or the exception that ended the call

vars == <<pc, entry, files, seed_id, input_num, executed, events, csv_rows,
          call_trace_df, trace_df, grouped, G, use_weights, result, exc>>

\* ------------------------------------------------------------ pandas

IsNA(r) == r.source = NaN \/ r.target = NaN

Key(r) == <<r.source, r.target>>

EmptyCounts == [k \in {} |-> 0]

\* A count that is set to 1 on every occurrence instead of being increased.
IncrOverwrite(counts, k) ==
    [x \in DOMAIN counts \cup {k} |-> IF x = k THEN 1 ELSE counts[x]]

\* counts[k] += 1, with a missing key counting as 0.
Incr(counts, k) ==
    [x \in DOMAIN counts \cup {k} |->
        IF x = k THEN (IF k \in DOMAIN counts THEN counts[k] + 1 ELSE 1)
        ELSE counts[x]]

\* One pass over the rows counting the rows of each key; a row with a missing
\* key is left out of every group (groupby's dropna default).
RECURSIVE CountRows(_, _)
CountRows(df, counts) ==
    IF df = <<>> THEN counts
    ELSE CountRows(Tail(df),
                   IF IsNA(Head(df)) THEN counts ELSE Incr(counts, Key(Head(df))))

LexLess(a, b) == a[1] < b[1] \/ (a[1] = b[1] /\ a[2] < b[2])

\* Group keys in sorted order (groupby's sort default).
RECURSIVE SortedKeys(_)
SortedKeys(S) ==
    IF S = {} THEN <<>>
    ELSE LET m == CHOOSE x \in S : \A y \in S \ {x} : LexLess(x, y)
         IN  <<m>> \o SortedKeys(S \ {m})

\* A grouping that only merges adjacent equal rows and keeps the input order.
RECURSIVE GroupRuns(_)
GroupRuns(df) ==
    IF df = <<>> THEN <<>>
    ELSE LET r == Head(df)
             rest == GroupRuns(Tail(df))
         IN  IF IsNA(r) THEN rest
             ELSE IF rest # <<>> /\ Key(rest[1]) = Key(r)
                  THEN <<[rest[1] EXCEPT !.label = @ + 1]>> \o Tail(rest)
                  ELSE <<[source |-> r.source, target |-> r.target, label |-> 1]>> \o rest

\* A grouping that lists the distinct keys and does not count them.
GroupDistinct(df) ==
    LET ks == SortedKeys(DOMAIN CountRows(df, EmptyCounts))
    IN  [i \in 1..Len(ks) |->
            [source |-> ks[i][1], target |-> ks[i][2], label |-> 1]]

\* trace_df.groupby(columns).size().reset_index().rename(columns={0: 'label'})
groupby_size(df) ==
    LET c == CountRows(df, EmptyCounts)
        ks == SortedKeys(DOMAIN c)
    IN  [i \in 1..Len(ks) |->
            [source |-> ks[i][1], target |-> ks[i][2], label |-> c[ks[i]]]]

\* ------------------------------------------------------------ networkx

EmptyGraph == [nodes |-> <<>>, adj |-> [e \in {} |-> 0]]

Range(s) == {s[i] : i \in DOMAIN s}

add_node(nodes, n) == IF n \in Range(nodes) THEN nodes ELSE Append(nodes, n)

\* An add_edge that leaves the target out of the node list.
add_edge_no_target(g, s, t, w) ==
    [nodes |-> add_node(g.nodes, s),
     adj   |-> [e \in DOMAIN g.adj \cup {<<s, t>>} |->
                   IF e = <<s, t>> THEN w ELSE g.adj[e]]]

\* DiGraph.add_edge(s, t, label=w): both endpoints become nodes (in this
\* order, if new) and the edge's attribute dict is set, replacing an older one.
add_edge(g, s, t, w) ==
    [nodes |-> add_node(add_node(g.nodes, s), t),
     adj   |-> [e \in DOMAIN g.adj \cup {<<s, t>>} |->
                   IF e = <<s, t>> THEN w ELSE g.adj[e]]]

RECURSIVE AddEdges(_, _)
AddEdges(g, edges) ==
    IF edges = <<>> THEN g
    ELSE AddEdges(add_edge(g, Head(edges).source, Head(edges).target, Head(edges).label),
                  Tail(edges))

\* nx.from_pandas_edgelist(grouped, edge_attr=True, create_using=nx.DiGraph())
from_pandas_edgelist(edges) == AddEdges(EmptyGraph, edges)

calltrace_to_callgraph(df) == from_pandas_edgelist(groupby_size(df))

\* Position of node u in nodelist: index = dict(zip(nodelist, range(nlen))).
Index(nodelist, u) == CHOOSE i \in DOMAIN nodelist : nodelist[i] = u

\* Coefficients with row and column exchanged.
CoefficientsTransposed(g, weighted) ==
    {[row  |-> Index(g.nodes, e[2]),
      col  |-> Index(g.nodes, e[1]),
      data |-> IF weighted THEN g.adj[e] ELSE 1] : e \in DOMAIN g.adj}

\* Coefficients that always carry the 'label' attribute.
CoefficientsAlwaysLabel(g, weighted) ==
    {[row  |-> Index(g.nodes, e[1]),
      col  |-> Index(g.nodes, e[2]),
      data |-> g.adj[e]] : e \in DOMAIN g.adj}

\* The (row, col, data) triples of the edges: data is the edge's 'label' when a
\* weight attribute is named and 1 when weight is None.
Coefficients(g, weighted) ==
    {[row  |-> Index(g.nodes, e[1]),
      col  |-> Index(g.nodes, e[2]),
      data |-> IF weighted THEN g.adj[e] ELSE 1] : e \in DOMAIN g.adj}

RECURSIVE SumData(_)
SumData(S) ==
    IF S = {} THEN 0
    ELSE LET c == CHOOSE x \in S : TRUE IN c.data + SumData(S \ {c})

\* The sparse matrix of the coefficient triples, as a dense N x N array.
CooMatrix(n, coeffs) ==
    [i \in 1..n |-> [j \in 1..n |->
        SumData({c \in coeffs : c.row = i /\ c.col = j})]]

\* nx.adjacency_matrix(G, weight=...) refuses a graph without nodes.
adjacency_matrix(g, weighted) ==
    IF Len(g.nodes) = 0
    THEN [status |-> "NetworkXError", node_list |-> <<>>, adj_mtx |-> <<>>]
    ELSE [status   |-> "ok",
          node_list |-> g.nodes,
          adj_mtx  |-> CooMatrix(Len(g.nodes), Coefficients(g, weighted))]

graph_to_adjacency_matrix(g, uw) == adjacency_matrix(g, uw)

NoResult == [status |-> "none", node_list |-> <<>>, adj_mtx |-> <<>>]

\* ------------------------------------------------------------ state machine

Init ==
    /\ pc = "start"
    /\ entry = "none"
    /\ files = 0
    /\ seed_id = 0
    /\ input_num = 0
    /\ executed = <<>>
    /\ events = <<>>
    /\ csv_rows = <<>>
    /\ call_trace_df = <<>>
    /\ trace_df = <<>>
    /\ grouped = <<>>
    /\ G = EmptyGraph
    /\ use_weights = TRUE
    /\ result = NoResult
    /\ exc = "none"

\* The test "input_num != seed_id: continue" with >= in place of ==.
SelectedFrom(i, s) == i >= s

\* The loop body runs the binary on the file at position seed_id only.
Selected(i, s) == i = s

\* get_dynamic_call_graph up to the loop: the two assertions, the empty frame.
CallGetDynamicCallGraph ==
    /\ pc = "start"
    /\ \E n \in 0..MaxFiles, s \in -1..MaxFiles, exists \in BOOLEAN :
          /\ files' = n
          /\ seed_id' = s
          /\ entry' = "get_dynamic_call_graph"
          /\ IF exists
             THEN pc' = "loop" /\ exc' = "none"
             ELSE pc' = "raised" /\ exc' = "AssertionError"
    /\ input_num' = 0
    /\ call_trace_df' = <<>>
    /\ UNCHANGED <<executed, events, csv_rows, trace_df, grouped, G, use_weights, result>>

\* An iteration on a file that is not the selected one.
LoopSkip ==
    /\ pc = "loop"
    /\ input_num < files
    /\ ~Selected(input_num, seed_id)
    /\ input_num' = input_num + 1
    /\ UNCHANGED <<pc, entry, files, seed_id, executed, events, csv_rows,
                   call_trace_df, trace_df, grouped, G, use_weights, result, exc>>

\* The iteration on the selected file: run the binary, read callgraph.csv,
\* append its rows.
LoopRun ==
    /\ pc = "loop"
    /\ input_num < files
    /\ Selected(input_num, seed_id)
    /\ \E rows \in CsvContents :
          /\ executed' = Append(executed, input_num)
          /\ events' = events \o <<"run", "read">>
          /\ csv_rows' = csv_rows \o rows
          /\ call_trace_df' = call_trace_df \o rows
    /\ input_num' = input_num + 1
    /\ UNCHANGED <<pc, entry, files, seed_id, trace_df, grouped, G, use_weights, result, exc>>

\* subprocess.run cannot start the binary: the call ends in an OSError.
LoopRunFails ==
    /\ pc = "loop"
    /\ input_num < files
    /\ Selected(input_num, seed_id)
    /\ pc' = "raised"
    /\ exc' = "OSError"
    /\ UNCHANGED <<entry, files, seed_id, input_num, executed, events, csv_rows,
                   call_trace_df, trace_df, grouped, G, use_weights, result>>

\* The binary ran and callgraph.csv cannot be read or parsed.
LoopReadFails ==
    /\ pc = "loop"
    /\ input_num < files
    /\ Selected(input_num, seed_id)
    /\ executed' = Append(executed, input_num)
    /\ events' = Append(events, "run")
    /\ pc' = "raised"
    /\ exc' = "ReadError"
    /\ UNCHANGED <<entry, files, seed_id, input_num, csv_rows,
                   call_trace_df, trace_df, grouped, G, use_weights, result>>

\* After the loop: G = self._calltrace_to_callgraph(call_trace_df); return G.
LoopEnd ==
    /\ pc = "loop"
    /\ input_num >= files
    /\ trace_df' = call_trace_df
    /\ grouped' = groupby_size(call_trace_df)
    /\ G' = calltrace_to_callgraph(call_trace_df)
    /\ events' = Append(events, "aggregate")
    /\ pc' = "graph"
    /\ UNCHANGED <<entry, files, seed_id, input_num, executed, csv_rows,
                   call_trace_df, use_weights, result, exc>>

\* The static method called on a DataFrame of the caller's.
CallCalltraceToCallgraph ==
    /\ pc = "start"
    /\ \E df \in Traces :
          /\ trace_df' = df
          /\ grouped' = groupby_size(df)
          /\ G' = calltrace_to_callgraph(df)
    /\ entry' = "_calltrace_to_callgraph"
    /\ events' = Append(events, "aggregate")
    /\ pc' = "graph"
    /\ UNCHANGED <<files, seed_id, input_num, executed, csv_rows,
                   call_trace_df, use_weights, result, exc>>

\* graph_to_adjacency_matrix(G, use_weights) on the graph just built.
CallGraphToAdjacencyMatrix ==
    /\ pc = "graph"
    /\ \E uw \in BOOLEAN :
          LET r == graph_to_adjacency_matrix(G, uw)
          IN  /\ use_weights' = uw
              /\ result' = r
              /\ IF r.status = "ok"
                 THEN pc' = "matrix" /\ exc' = "none"
                 ELSE pc' = "raised" /\ exc' = r.status
    /\ UNCHANGED <<entry, files, seed_id, input_num, executed, events, csv_rows,
                   call_trace_df, trace_df, grouped, G>>

Next ==
    \/ CallGetDynamicCallGraph
    \/ LoopSkip
    \/ LoopRun
    \/ LoopRunFails
    \/ LoopReadFails
    \/ LoopEnd
    \/ CallCalltraceToCallgraph
    \/ CallGraphToAdjacencyMatrix

Spec == Init /\ [][Next]_vars

\* The operation nx.from_pandas_edgelist alone, on an edge list of the caller's.
CallFromPandasEdgelist ==
    /\ pc = "start"
    /\ \E edges \in EdgeLists :
          /\ grouped' = edges
          /\ G' = from_pandas_edgelist(edges)
    /\ entry' = "from_pandas_edgelist"
    /\ pc' = "graph"
    /\ UNCHANGED <<files, seed_id, input_num, executed, events, csv_rows,
                   call_trace_df, trace_df, use_weights, result, exc>>

NextBuild ==
    \/ CallFromPandasEdgelist
    \/ CallGraphToAdjacencyMatrix

SpecBuild == Init /\ [][NextBuild]_vars

\* ------------------------------------------------------------ vocabulary of the claims

\* _calltrace_to_callgraph has returned (a later matrix extraction keeps it so).
Aggregated == Len(events) > 0 /\ events[Len(events)] = "aggregate"

\* graph_to_adjacency_matrix has been called (it returned or raised).
MatrixCalled == result.status # "none"

\* get_dynamic_call_graph has returned its graph.
Returned == entry = "get_dynamic_call_graph" /\ Aggregated

WellFormed(df) == \A i \in DOMAIN df : df[i] \in CallRecord

Occurrences(df, p) == Cardinality({i \in DOMAIN df : Key(df[i]) = p})

EdgesOf(edges, p) == {j \in DOMAIN edges : Key(edges[j]) = p}

RECURSIVE SumLabels(_)
SumLabels(edges) ==
    IF edges = <<>> THEN 0 ELSE Head(edges).label + SumLabels(Tail(edges))

RECURSIVE SumSeq(_)
SumSeq(s) == IF s = <<>> THEN 0 ELSE Head(s) + SumSeq(Tail(s))

\* Sum of all entries of a dense matrix (a sequence of rows).
MatrixTotal(m) == SumSeq([i \in DOMAIN m |-> SumSeq(m[i])])

Endpoints(edges) ==
    {edges[j].source : j \in DOMAIN edges} \cup {edges[j].target : j \in DOMAIN edges}

BagOfSeq(s) == [x \in Range(s) |-> Cardinality({i \in DOMAIN s : s[i] = x})]

Permuted(df, p) == [i \in DOMAIN df |-> df[p[i]]]

HasDuplicatePair(edges) ==
    \E i, j \in DOMAIN edges : i # j /\ Key(edges[i]) = Key(edges[j])

\* ------------------------------------------------------------ claims

\* C1: after aggregation there is exactly one weighted edge for every ordered
\* pair of node identifiers that occurs in the records and none for a pair that
\* does not occur; its label is the number of records equal to the pair; so no
\* two edges share a pair and every label is at least 1.  The graph carries
\* the same edges and labels.
C1_OneEdgePerPairWithCount ==
    Aggregated =>
        /\ \A p \in Nodes \X Nodes :
              LET n == Occurrences(trace_df, p)
              IN  /\ Cardinality(EdgesOf(grouped, p)) = (IF n > 0 THEN 1 ELSE 0)
                  /\ \A j \in EdgesOf(grouped, p) : grouped[j].label = n
                  /\ (p \in DOMAIN G.adj) <=> (n > 0)
                  /\ (p \in DOMAIN G.adj) => G.adj[p] = n
        /\ \A j \in DOMAIN grouped :
              /\ Key(grouped[j]) \in Nodes \X Nodes
              /\ grouped[j].label >= 1
        /\ DOMAIN G.adj \subseteq Nodes \X Nodes

\* Scenario 1 on two nodes: [(1,2), (1,2), (2,1)] gives {(1,2): 2, (2,1): 1}.
C1_Witness ==
    /\ Aggregated
    /\ trace_df = <<[source |-> 1, target |-> 2], [source |-> 1, target |-> 2],
                    [source |-> 2, target |-> 1]>>
    /\ grouped = <<[source |-> 1, target |-> 2, label |-> 2],
                   [source |-> 2, target |-> 1, label |-> 1]>>

\* C2: weight conservation: for a trace set (a sequence of call records, each
\* with both fields) the labels of the aggregated edges sum to the number of
\* records, and so do the labels of the graph's edges.
C2_WeightConservation ==
    (Aggregated /\ WellFormed(trace_df)) =>
        /\ SumLabels(grouped) = Len(trace_df)
        /\ SumData({[data |-> G.adj[e], edge |-> e] : e \in DOMAIN G.adj}) = Len(trace_df)

C2_Witness ==
    /\ Aggregated
    /\ WellFormed(trace_df)
    /\ Len(trace_df) = 3
    /\ Len(grouped) = 2

\* C3: permutation invariance: aggregating any permutation of the records
\* yields the same multiset of weighted edges, and the graph built from it has
\* the same node set and the same weighted edges.  (Checked in the state in
\* which _calltrace_to_callgraph has just returned.)
C3_PermutationInvariance ==
    (Aggregated /\ pc = "graph") =>
        \A p \in Permutations(DOMAIN trace_df) :
            LET df2 == Permuted(trace_df, p)
                g2 == calltrace_to_callgraph(df2)
            IN  /\ BagOfSeq(groupby_size(df2)) = BagOfSeq(grouped)
                /\ Range(g2.nodes) = Range(G.nodes)
                /\ g2.adj = G.adj

\* Equal records that are not adjacent, in an order that is not the sorted one.
C3_Witness ==
    /\ Aggregated
    /\ trace_df = <<[source |-> 2, target |-> 1], [source |-> 1, target |-> 2],
                    [source |-> 2, target |-> 1]>>
    /\ Len(grouped) = 2

\* C4: in a returned (NodeList, matrix) pair, cell (i, j) is, with
\* use_weights, the label of the edge NodeList[i] -> NodeList[j] if the graph
\* has that edge and 0 otherwise; without use_weights, 1 if the graph has that
\* edge and 0 otherwise.  The matrix is indexed by that NodeList.
C4_MatrixCells ==
    (pc = "matrix") =>
        /\ result.node_list = G.nodes
        /\ \A i, j \in DOMAIN result.node_list :
              LET e == <<result.node_list[i], result.node_list[j]>>
              IN  result.adj_mtx[i][j] =
                      IF e \in DOMAIN G.adj
                      THEN (IF use_weights THEN G.adj[e] ELSE 1)
                      ELSE 0

\* Scenario 4 with weights 2 and 1: weighted matrix [[0,2],[1,0]].
C4_Witness ==
    /\ pc = "matrix"
    /\ use_weights
    /\ result.node_list = <<1, 2>>
    /\ result.adj_mtx = <<<<0, 2>>, <<1, 0>>>>

\* C5: node completeness: the graph's nodes are exactly the sources and
\* targets of the weighted edges, each once; a returned NodeList holds each of
\* them exactly once (length N) and the returned matrix is N x N.
C5_NodeCompleteness ==
    /\ Aggregated =>
          /\ Range(G.nodes) = Endpoints(grouped)
          /\ Len(G.nodes) = Cardinality(Endpoints(grouped))
          /\ \A n \in Range(G.nodes) :
                \E e \in DOMAIN G.adj : e[1] = n \/ e[2] = n
    /\ (pc = "matrix") =>
          LET N == Cardinality(Endpoints(grouped))
          IN  /\ Len(result.node_list) = N
              /\ Range(result.node_list) = Endpoints(grouped)
              /\ DOMAIN result.adj_mtx = 1..N
              /\ \A i \in 1..N : DOMAIN result.adj_mtx[i] = 1..N

\* Node 2 is only ever a target.
C5_Witness ==
    /\ pc = "matrix"
    /\ Len(result.node_list) = 2
    /\ \A j \in DOMAIN grouped : grouped[j].source = 1
    /\ \E j \in DOMAIN grouped : grouped[j].target = 2

\* C6: matrix round trip: the entries of a returned weighted matrix sum to the
\* sum of the edge labels, those of a returned unweighted matrix to the number
\* of distinct edges; for a trace set, the weighted sum is the number of
\* records.
C6_MatrixRoundTrip ==
    (pc = "matrix") =>
        /\ use_weights => MatrixTotal(result.adj_mtx) = SumLabels(grouped)
        /\ ~use_weights => MatrixTotal(result.adj_mtx) = Len(grouped)
        /\ (use_weights /\ WellFormed(trace_df)) =>
              MatrixTotal(result.adj_mtx) = Len(trace_df)

\* An unweighted matrix of a graph with a self-loop of label 2 and one more edge.
C6_Witness ==
    /\ pc = "matrix"
    /\ ~use_weights
    /\ Len(trace_df) = 3
    /\ <<1, 1>> \in DOMAIN G.adj
    /\ G.adj[<<1, 1>>] = 2
    /\ Len(grouped) = 2

\* C7: the empty record sequence is no error anywhere: it aggregates to the
\* empty edge sequence, builds a graph with 0 nodes and 0 edges, and
\* graph_to_adjacency_matrix on that graph returns normally, with an empty
\* NodeList and a 0 x 0 matrix.
C7_EmptyInputIsNoError ==
    (Aggregated /\ trace_df = <<>>) =>
        /\ grouped = <<>>
        /\ G = EmptyGraph
        /\ MatrixCalled =>
              /\ exc = "none"
              /\ result.status = "ok"
              /\ result.node_list = <<>>
              /\ result.adj_mtx = <<>>

\* C8: building from an edge sequence in which two entries share a
\* (source, target) pair fails with DuplicateEdgeError and yields no graph.
C8_DuplicateEdgeRejected ==
    (entry = "from_pandas_edgelist" /\ pc # "start" /\ HasDuplicatePair(grouped)) =>
        /\ exc = "DuplicateEdgeError"
        /\ G = EmptyGraph

\* C9: a record with a missing source or target makes aggregation abort with
\* MalformedRecordError and return no edges and no graph; whenever aggregation
\* returns, every input record is counted in exactly one edge weight.
C9_MalformedRecordAborts ==
    /\ (entry # "none" /\ pc # "loop" /\ ~WellFormed(trace_df)) =>
          /\ exc = "MalformedRecordError"
          /\ grouped = <<>>
          /\ G = EmptyGraph
    /\ Aggregated => SumLabels(grouped) = Len(trace_df)

\* C10 as stated: whatever the number of files and the value of seed_id, a
\* call of get_dynamic_call_graph that returns has run the binary exactly
\* once, on the file at position seed_id, has read the trace once, after the
\* run and before aggregation, and returns the graph of that run's records.
C10_ExactlyOneRunAlways ==
    Returned =>
        /\ executed = <<seed_id>>
        /\ events = <<"run", "read", "aggregate">>
        /\ trace_df = csv_rows
        /\ G = calltrace_to_callgraph(csv_rows)

\* C10 amended: the binary is never run on a file other than the one at
\* position seed_id and never more than once; a call that returns with
\* 0 <= seed_id < number of files has run it exactly once, read the trace once
\* between the run and the aggregation, and returns the graph of exactly that
\* run's rows; a call that returns with seed_id outside that range has run
\* nothing, read nothing and returns the empty graph.
C10_OneRunWhenSeedInRange ==
    /\ Len(executed) <= 1
    /\ \A i \in DOMAIN executed : executed[i] = seed_id
    /\ Returned =>
          IF 0 <= seed_id /\ seed_id < files
          THEN /\ executed = <<seed_id>>
               /\ events = <<"run", "read", "aggregate">>
               /\ trace_df = csv_rows
               /\ G = calltrace_to_callgraph(csv_rows)
          ELSE /\ executed = <<>>
               /\ events = <<"aggregate">>
               /\ trace_df = <<>>
               /\ G = EmptyGraph

\* Two files, the second selected: one skipped iteration, then the run.
C10_Witness ==
    /\ Returned
    /\ files = 2
    /\ seed_id = 1
    /\ executed = <<1>>
    /\ Len(csv_rows) = 2

====
